---------------------------- MODULE Spec2Model ----------------------------
(***************************************************************************)
(* Model of garf-vader/ListingEditor:                                      *)
(*   src/fetch_sp_api_token.py      token fetch, hand-written .env parser,  *)
(*                                  urllib            (entry "token_file") *)
(*   src/src/fetch_sp_api_token.py  token fetch, load_dotenv, requests     *)
(*                                                    (entry "token_dotenv")*)
(*   src/src/listing_editor.py      token fetch (the load_dotenv variant   *)
(*                                  it imports) followed by one sandbox    *)
(*                                  GET               (entry "editor")     *)
(*                                                                         *)
(* A text is a sequence of tokens.  A token is one character (" ", "#",    *)
(* "=", a newline, a letter) or a whole word that the program treats as a  *)
(* unit (a variable name such as "SP_API_CLIENT_ID", a response body).     *)
(***************************************************************************)
EXTENDS Integers, Sequences, FiniteSets, TLC

VARIABLES
    entry,            \* which script runs (or "load_env_file" for the parser alone)
    pc,               \* position of the run
    path_exists,      \* whether the .env file exists
    file_text,        \* the .env file's text
    environ0,         \* os.environ when the process starts
    environ,          \* os.environ now (load_dotenv writes to it)
    env_values,       \* the mapping parsed from the .env file
    creds,            \* credentials resolved so far, in order
    error,            \* the exception in flight (NoError when none)
    requests,         \* the HTTP requests issued so far, in order
    response,         \* the token endpoint's response
    response_json,    \* the parsed token response
    token,            \* what fetch_access_token returned
    sandbox_response, \* the sandbox endpoint's response
    stdout,           \* what was printed to standard output, in order
    stderr,           \* what was printed to standard error, in order
    exit_code         \* the process exit code (-1 while running)

vars == <<entry, pc, path_exists, file_text, environ0, environ, env_values,
          creds, error, requests, response, response_json, token,
          sandbox_response, stdout, stderr, exit_code>>

-----------------------------------------------------------------------------
(* Bounds of the model.                                                    *)

\* Longest .env text, in tokens, explored when the parser is checked alone.
MaxTextLen == 6
\* Most lines of the .env file in a run of an entry point.
MaxFileLines == 2

-----------------------------------------------------------------------------
(* Text helpers: str.strip, str.splitlines, str.split("=", 1).             *)

NL == "\n"
Whitespace == {" ", "\t", NL}

RECURSIVE LStrip(_)
LStrip(s) ==
    IF s = <<>> THEN s
    ELSE IF Head(s) \in Whitespace THEN LStrip(Tail(s)) ELSE s

RECURSIVE RStrip(_)
RStrip(s) ==
    IF s = <<>> THEN s
    ELSE IF s[Len(s)] \in Whitespace THEN RStrip(SubSeq(s, 1, Len(s) - 1)) ELSE s

\* str.strip()
Strip(s) == RStrip(LStrip(s))

\* str.splitlines(): a trailing newline opens no further line
RECURSIVE SplitLinesFrom(_, _, _)
SplitLinesFrom(text, cur, acc) ==
    IF text = <<>> THEN (IF cur = <<>> THEN acc ELSE Append(acc, cur))
    ELSE IF Head(text) = NL THEN SplitLinesFrom(Tail(text), <<>>, Append(acc, cur))
    ELSE SplitLinesFrom(Tail(text), Append(cur, Head(text)), acc)

SplitLines(text) == SplitLinesFrom(text, <<>>, <<>>)

\* position of the first "=" of s (0 when there is none)
RECURSIVE FindEqFrom(_, _)
FindEqFrom(s, i) ==
    IF i > Len(s) THEN 0
    ELSE IF s[i] = "=" THEN i ELSE FindEqFrom(s, i + 1)

\* the cut of rsplit("=", 1): at the last "="
SplitPos_last(s) ==
    IF \E i \in 1..Len(s) : s[i] = "="
    THEN CHOOSE i \in 1..Len(s) :
            s[i] = "=" /\ \A j \in (i + 1)..Len(s) : s[j] # "="
    ELSE 0

\* position at which split("=", 1) cuts: the first "="
SplitPos(s) == FindEqFrom(s, 1)

\* stripped.split("=", 1)
SplitAtEq(s) ==
    LET i == SplitPos(s)
    IN  <<SubSeq(s, 1, i - 1), SubSeq(s, i + 1, Len(s))>>

-----------------------------------------------------------------------------
(* load_env_file (src/fetch_sp_api_token.py)                               *)

EmptyMapping == [k \in {} |-> <<>>]

\* values[name] = value
SetItem(values, name, value) ==
    [k \in (DOMAIN values) \cup {name} |-> IF k = name THEN value ELSE values[k]]

\* one iteration of the loop over the file's lines
ParseLine(values, line) ==
    LET stripped == Strip(line)
    IN  IF stripped = <<>> \/ Head(stripped) = "#" THEN values
        ELSE IF \A i \in 1..Len(stripped) : stripped[i] # "=" THEN values
        ELSE LET nv == SplitAtEq(stripped)
             IN  SetItem(values, Strip(nv[1]), Strip(nv[2]))

RECURSIVE ParseLines(_, _)
ParseLines(values, lines) ==
    IF lines = <<>> THEN values
    ELSE ParseLines(ParseLine(values, Head(lines)), Tail(lines))

load_env_file(exists, text) ==
    IF ~exists THEN EmptyMapping
    ELSE ParseLines(EmptyMapping, SplitLines(text))


-----------------------------------------------------------------------------
(* Program constants                                                       *)

TOKEN_ENDPOINT == "https://api.amazon.com/auth/o2/token"
FORM_CONTENT_TYPE == "application/x-www-form-urlencoded;charset=UTF-8"
ENV_FILENAME == ".env"
\* timeout=30 of requests.post
POST_TIMEOUT == 30

\* the credentials fetch_access_token resolves, in the order it resolves them
RequiredNames == <<"SP_API_CLIENT_ID", "SP_API_SECRET", "SP_API_TOKEN">>

\* a variable name as a text
NameText(i) == <<RequiredNames[i]>>

sandbox_endpoints ==
    [r \in {"NA", "EU", "FE"} |->
        CASE r = "NA" -> "sandbox.sellingpartnerapi-na.amazon.com"
          [] r = "EU" -> "sandbox.sellingpartnerapi-eu.amazon.com"
          [] r = "FE" -> "sandbox.sellingpartnerapi-fe.amazon.com"]

-----------------------------------------------------------------------------
(* Python values: what json.loads yields, what a variable holds.           *)
(* t is the type, s the scalar's text, f the fields of an object (one      *)
(* level is modelled: a field's value carries no fields of its own).       *)

NoFields == [k \in {} |-> [t |-> "NoneType", s |-> "None"]]
Scalar(t, s) == [t |-> t, s |-> s, f |-> NoFields]
PyNone == Scalar("NoneType", "None")
PyStr(s) == Scalar("str", s)
PyInt(s) == Scalar("int", s)
PyList == Scalar("list", "[]")
PyDict(fields) ==
    [t |-> "dict", s |-> "",
     f |-> [k \in DOMAIN fields |-> [t |-> fields[k].t, s |-> fields[k].s]]]

-----------------------------------------------------------------------------
(* Exceptions                                                              *)

Exc(cls, msg, arg, cause) == [cls |-> cls, msg |-> msg, arg |-> arg, cause |-> cause]
NoError == Exc("None", "", <<>>, "None")

\* raise MissingEnvironmentVariableError(f"Required variable '{name}' ...") from exc
MissingEnvironmentVariableError(name) ==
    Exc("MissingEnvironmentVariableError",
        "Required variable '{name}' is not defined in .env or the environment.",
        name, "KeyError")

Returned(value) == [raised |-> FALSE, value |-> value, error |-> NoError]
Raised(exc) == [raised |-> TRUE, value |-> <<>>, error |-> exc]

-----------------------------------------------------------------------------
(* Config resolution                                                       *)

\* `name in env_file_values and env_file_values[name]`
FileValueUsable(name, env_file_values) ==
    name \in DOMAIN env_file_values /\ env_file_values[name] # <<>>

\* os.environ.get(name, ""): the lookup, had it not raised on a missing name
EnvironLookup_blank(name, env) ==
    IF name \in DOMAIN env THEN Returned(env[name]) ELSE Returned(<<>>)

\* os.environ[name], KeyError turned into MissingEnvironmentVariableError
EnvironLookup(name, env) ==
    IF name \in DOMAIN env THEN Returned(env[name])
    ELSE Raised(MissingEnvironmentVariableError(name))

\* get_env_value(name, env_file_values) of src/fetch_sp_api_token.py
get_env_value_file(name, env_file_values, env) ==
    IF FileValueUsable(name, env_file_values)
    THEN Returned(env_file_values[name])
    ELSE EnvironLookup(name, env)

\* get_env_value(name) of src/src/fetch_sp_api_token.py
get_env_value_environ(name, env) == EnvironLookup(name, env)

\* What load_dotenv() reads from the .env file.  On the lines of this model
\* (KEY=VALUE, blank, comment) python-dotenv's grammar yields the mapping
\* the hand-written parser yields; a missing file yields nothing.
DotenvValues(exists, text) == load_env_file(exists, text)

\* load_dotenv(): override defaults to False, so a variable the process
\* environment already defines is left as it is.
load_dotenv(env, exists, text) ==
    LET parsed == DotenvValues(exists, text)
    IN  [k \in (DOMAIN env) \cup (DOMAIN parsed) |->
            IF k \in DOMAIN env THEN env[k] ELSE parsed[k]]

-----------------------------------------------------------------------------
(* The token request                                                       *)

\* build_request_payload: the four form fields
build_request_payload(client_id, client_secret, refresh_token) ==
    [client_id |-> client_id,
     client_secret |-> client_secret,
     grant_type |-> <<"refresh_token">>,
     refresh_token |-> refresh_token]

NoPayload == build_request_payload(<<>>, <<>>, <<>>)

\* quote_plus of one token of a form value
QuoteToken(c) ==
    CASE c = "=" -> "%3D"
      [] c = " " -> "+"
      [] c = "&" -> "%26"
      [] OTHER -> c

QuotePlus(s) == [i \in 1..Len(s) |-> QuoteToken(s[i])]

\* parse.urlencode(payload).encode("utf-8")
UrlEncode(payload) ==
    <<"client_id", "=">> \o QuotePlus(payload.client_id)
    \o <<"&", "client_secret", "=">> \o QuotePlus(payload.client_secret)
    \o <<"&", "grant_type", "=">> \o QuotePlus(payload.grant_type)
    \o <<"&", "refresh_token", "=">> \o QuotePlus(payload.refresh_token)

NoParams == [MarketplaceIds |-> "", CreatedAfter |-> ""]

\* an HTTP request as the program hands it to the HTTP library: form is the
\* dict of form fields, data the bytes when the program encodes them itself
Request(method, url, content_type, form, data, access_token, params, timeout) ==
    [method |-> method, url |-> url, content_type |-> content_type,
     form |-> form, data |-> data, access_token |-> access_token,
     params |-> params, timeout |-> timeout]

\* the POST of fetch_access_token: urllib is handed the encoded bytes and no
\* timeout (0), requests the dict and timeout=30
TokenRequest(variant, payload) ==
    IF variant = "token_file"
    THEN Request("POST", TOKEN_ENDPOINT, FORM_CONTENT_TYPE, payload,
                 UrlEncode(payload), PyNone, NoParams, 0)
    ELSE Request("POST", TOKEN_ENDPOINT, FORM_CONTENT_TYPE, payload,
                 <<>>, PyNone, NoParams, POST_TIMEOUT)

\* the GET of fetch_example
SandboxRequest(endpoints, access_token) ==
    Request("GET", <<"https://", endpoints["NA"], "/orders/v0/orders">>,
            "application/json", NoPayload, <<>>, access_token,
            [MarketplaceIds |-> "ATVPDKIKX0DER", CreatedAfter |-> "TEST_CASE_200"],
            0)

-----------------------------------------------------------------------------
(* HTTP responses                                                          *)

\* a body: its bytes decode as UTF-8 to text, or do not decode
Body(utf8, text) == [utf8 |-> utf8, text |-> text]
HttpResponse(status, body) == [kind |-> "http", status |-> status, body |-> body]
ConnectionFailure == [kind |-> "connection_error", status |-> 0, body |-> Body(TRUE, "")]
NoResponse == [kind |-> "none", status |-> 0, body |-> Body(TRUE, "")]

\* json.loads on the bodies of this model; anything else is not JSON
JsonLoads(text) ==
    CASE text = "{\"access_token\": \"abc123\", \"expires_in\": 3600}" ->
            [ok |-> TRUE,
             value |-> PyDict([access_token |-> PyStr("abc123"),
                               expires_in |-> PyInt("3600")])]
      [] text = "{\"access_token\": 123}" ->
            [ok |-> TRUE, value |-> PyDict([access_token |-> PyInt("123")])]
      [] text = "{\"access_token\": null}" ->
            [ok |-> TRUE, value |-> PyDict([access_token |-> PyNone])]
      [] text = "{\"error\": \"invalid_grant\"}" ->
            [ok |-> TRUE, value |-> PyDict([error |-> PyStr("invalid_grant")])]
      [] text = "[]" -> [ok |-> TRUE, value |-> PyList]
      [] text = "\"access_token\"" -> [ok |-> TRUE, value |-> PyStr("access_token")]
      [] text = "42" -> [ok |-> TRUE, value |-> PyInt("42")]
      [] text = "null" -> [ok |-> TRUE, value |-> PyNone]
      [] text = "{\"payload\": {}}" ->
            [ok |-> TRUE, value |-> PyDict([payload |-> Scalar("dict", "{}")])]
      [] text = "{\"errors\": []}" ->
            [ok |-> TRUE, value |-> PyDict([errors |-> PyList])]
      [] OTHER -> [ok |-> FALSE, value |-> PyNone]

\* bodies the token endpoint answers with
TokenBodies ==
    {Body(TRUE, t) : t \in {"{\"access_token\": \"abc123\", \"expires_in\": 3600}",
                            "{\"access_token\": 123}",
                            "{\"access_token\": null}",
                            "{\"error\": \"invalid_grant\"}",
                            "[]", "\"access_token\"", "42", "null",
                            "not json"}}
    \cup {Body(FALSE, "\\xff")}

ErrorBodies == {Body(TRUE, "{\"error\": \"invalid_grant\"}"), Body(TRUE, "not json")}

\* what the POST can end in
TokenOutcomes ==
    {ConnectionFailure}
    \cup {HttpResponse(200, b) : b \in TokenBodies}
    \cup {HttpResponse(st, b) : st \in {304, 500}, b \in ErrorBodies}

\* what the GET can end in
SandboxOutcomes ==
    {ConnectionFailure}
    \cup {HttpResponse(st, Body(TRUE, t)) :
            st \in {200, 500},
            t \in {"{\"payload\": {}}", "{\"errors\": []}", "not json"}}

-----------------------------------------------------------------------------
(* fetch_access_token: the steps after the credentials                      *)

\* the token-fetch module an entry point runs: listing_editor imports the
\* one beside it, src/src/fetch_sp_api_token.py
Variant(e) == IF e = "token_file" THEN "token_file" ELSE "token_dotenv"

\* request.urlopen(req): URLError on a connection failure, HTTPError on a
\* status outside 2xx; neither is caught in fetch_access_token
urlopen_error(resp) ==
    IF resp.kind = "connection_error"
    THEN Exc("URLError", "<urlopen error {reason}>", <<>>, "None")
    ELSE IF resp.status \notin 200..299
    THEN Exc("HTTPError", "HTTP Error {code}", <<ToString(resp.status)>>, "None")
    ELSE NoError

\* requests.post(...) and response.raise_for_status(): a RequestException is
\* re-raised as RuntimeError(f"Failed to fetch access token: {exc}") from exc;
\* raise_for_status raises for 400 <= status < 600 only
requests_post_error(resp) ==
    IF resp.kind = "connection_error"
    THEN Exc("RuntimeError", "Failed to fetch access token: {exc}",
             <<"ConnectionError">>, "ConnectionError")
    ELSE IF resp.status >= 400 /\ resp.status < 600
    THEN Exc("RuntimeError", "Failed to fetch access token: {exc}",
             <<"HTTPError">>, "HTTPError")
    ELSE NoError

post_error(variant, resp) ==
    IF variant = "token_file" THEN urlopen_error(resp) ELSE requests_post_error(resp)

\* where the run goes after the POST, had a failure been retried
AfterPost_retry(exc) == IF exc = NoError THEN "parse" ELSE "post"

\* where the run goes after the POST: a failure leaves fetch_access_token
AfterPost(exc) == IF exc = NoError THEN "parse" ELSE "raised"

PyReturned(value) == [raised |-> FALSE, value |-> value, error |-> NoError]
PyRaised(exc) == [raised |-> TRUE, value |-> PyNone, error |-> exc]

NonJsonError(response_text) ==
    Exc("RuntimeError",
        "Amazon SP-API token endpoint returned non-JSON response: {response_text}",
        <<response_text>>, "JSONDecodeError")

\* response.read().decode("utf-8") then json.loads(response_text): bytes that
\* are not UTF-8 raise UnicodeDecodeError, outside the try
parse_response_file(body) ==
    IF ~body.utf8
    THEN PyRaised(Exc("UnicodeDecodeError", "'utf-8' codec can't decode", <<>>, "None"))
    ELSE LET response_text == body.text
             r == JsonLoads(response_text)
         IN  IF r.ok THEN PyReturned(r.value)
             ELSE PyRaised(NonJsonError(response_text))

\* response.text then response.json(): requests decodes with replacement
\* characters, and bytes that do not decode are not JSON
parse_response_dotenv(body) ==
    LET response_text == IF body.utf8 THEN body.text ELSE "\\ufffd"
        r == JsonLoads(response_text)
    IN  IF r.ok THEN PyReturned(r.value)
        ELSE PyRaised(NonJsonError(response_text))

parse_response(variant, body) ==
    IF variant = "token_file" THEN parse_response_file(body)
    ELSE parse_response_dotenv(body)

\* response_json["access_token"]: KeyError (a dict without the key) becomes
\* RuntimeError; a value that is no dict raises TypeError, which is not caught
get_access_token(json) ==
    IF json.t = "dict"
    THEN IF "access_token" \in DOMAIN json.f
         THEN PyReturned(Scalar(json.f["access_token"].t, json.f["access_token"].s))
         ELSE PyRaised(Exc("RuntimeError",
                           "Response JSON is missing the 'access_token' field.",
                           <<>>, "KeyError"))
    ELSE PyRaised(Exc("TypeError", "{type} indices must be integers / not subscriptable",
                      <<json.t>>, "None"))

-----------------------------------------------------------------------------
(* Output                                                                  *)

\* one print call, or the interpreter's traceback
Out(kind, prefix, exc, value) ==
    [kind |-> kind, prefix |-> prefix, error |-> exc, value |-> value]

\* print(error, file=sys.stderr) / print(f"Failed to retrieve access token: {error}", ...)
ExceptMessage(exc) ==
    IF exc.cls = "MissingEnvironmentVariableError"
    THEN Out("message", "", exc, PyNone)
    ELSE Out("message", "Failed to retrieve access token: ", exc, PyNone)

\* print(json.dumps(value, indent=2), ...)
JsonDump(value) == Out("json", "", NoError, value)

\* print(value)
PrintValue(value) == Out("str", "", NoError, value)

\* an exception no handler catches: the interpreter prints the traceback
Traceback(exc) == Out("traceback", "", exc, PyNone)

\* fetch_access_token has not returned / no response has been parsed
NotReturned == Scalar("unset", "")
NotParsed == Scalar("unset", "")

-----------------------------------------------------------------------------
(* Inputs                                                                  *)

\* lines a .env file is made of in a run of an entry point
SampleLines ==
    { <<"SP_API_CLIENT_ID", "=", "a">>,
      <<" ", "SP_API_SECRET", " ", "=", " ", "b", " ">>,
      <<"SP_API_TOKEN", "=", "c", "=", "d">>,
      <<"SP_API_SECRET", "=">>,
      <<"#", "SP_API_TOKEN", "=", "c">> }

RECURSIVE JoinLines(_)
JoinLines(lines) ==
    IF lines = <<>> THEN <<>>
    ELSE Head(lines) \o <<NL>> \o JoinLines(Tail(lines))

FileTexts ==
    {JoinLines(ls) : ls \in UNION {[1..n -> SampleLines] : n \in 0..MaxFileLines}}

\* process environments: each required variable unset or set to "e"
Environments ==
    {[n \in S |-> <<"e">>] : S \in SUBSET {NameText(i) : i \in 1..Len(RequiredNames)}}

\* the tokens of the texts the parser is checked on alone
Alphabet == {NL, " ", "#", "=", "k"}
ParserTexts == UNION {[1..n -> Alphabet] : n \in 0..MaxTextLen}

-----------------------------------------------------------------------------
(* The state machine                                                       *)

InitCommon ==
    /\ environ = environ0
    /\ env_values = EmptyMapping
    /\ creds = <<>>
    /\ error = NoError
    /\ requests = <<>>
    /\ response = NoResponse
    /\ response_json = NotParsed
    /\ token = NotReturned
    /\ sandbox_response = NoResponse
    /\ stdout = <<>>
    /\ stderr = <<>>
    /\ exit_code = -1

\* a run of one of the three scripts
Init ==
    /\ entry \in {"token_file", "token_dotenv", "editor"}
    /\ pc = "start"
    /\ path_exists \in BOOLEAN
    /\ file_text \in (IF path_exists THEN FileTexts ELSE {<<>>})
    /\ environ0 \in Environments
    /\ InitCommon

\* load_env_file(Path.cwd() / ENV_FILENAME) in the file variant, load_dotenv()
\* in the other
LoadConfig ==
    /\ pc = "start"
    /\ entry # "load_env_file"
    /\ IF Variant(entry) = "token_file"
       THEN /\ env_values' = load_env_file(path_exists, file_text)
            /\ environ' = environ
       ELSE /\ environ' = load_dotenv(environ, path_exists, file_text)
            /\ env_values' = env_values
    /\ pc' = "resolve"
    /\ UNCHANGED <<entry, path_exists, file_text, environ0, creds, error, requests,
                   response, response_json, token, sandbox_response, stdout,
                   stderr, exit_code>>

\* get_env_value of the variant, on the next required name
get_env_value(variant, name, env_file_values, env) ==
    IF variant = "token_file" THEN get_env_value_file(name, env_file_values, env)
    ELSE get_env_value_environ(name, env)

\* client_id, client_secret, refresh_token = get_env_value(...), one per step
ResolveCredential ==
    /\ pc = "resolve"
    /\ LET i == Len(creds) + 1
           r == get_env_value(Variant(entry), NameText(i), env_values, environ)
       IN  IF r.raised
           THEN /\ error' = r.error
                /\ pc' = "raised"
                /\ creds' = creds
           ELSE /\ creds' = Append(creds, r.value)
                /\ pc' = IF i = Len(RequiredNames) THEN "post" ELSE "resolve"
                /\ error' = error
    /\ UNCHANGED <<entry, path_exists, file_text, environ0, environ, env_values,
                   requests, response, response_json, token, sandbox_response,
                   stdout, stderr, exit_code>>

\* build the payload and POST it once
PostToken ==
    /\ pc = "post"
    /\ \E outcome \in TokenOutcomes :
         LET payload == build_request_payload(creds[1], creds[2], creds[3])
             exc == post_error(Variant(entry), outcome)
         IN  /\ requests' = Append(requests, TokenRequest(Variant(entry), payload))
             /\ response' = outcome
             /\ error' = exc
             /\ pc' = AfterPost(exc)
    /\ UNCHANGED <<entry, path_exists, file_text, environ0, environ, env_values,
                   creds, response_json, token, sandbox_response, stdout, stderr,
                   exit_code>>

\* read the body and parse it as JSON
ParseBody ==
    /\ pc = "parse"
    /\ LET r == parse_response(Variant(entry), response.body)
       IN  IF r.raised
           THEN /\ error' = r.error
                /\ pc' = "raised"
                /\ response_json' = response_json
           ELSE /\ response_json' = r.value
                /\ pc' = "extract"
                /\ error' = error
    /\ UNCHANGED <<entry, path_exists, file_text, environ0, environ, env_values,
                   creds, requests, response, token, sandbox_response, stdout,
                   stderr, exit_code>>

\* access_token = response_json["access_token"]; print the response to
\* stderr; return access_token
ExtractAndReturn ==
    /\ pc = "extract"
    /\ LET r == get_access_token(response_json)
       IN  IF r.raised
           THEN /\ error' = r.error
                /\ pc' = "raised"
                /\ UNCHANGED <<token, stderr>>
           ELSE /\ stderr' = Append(stderr, JsonDump(response_json))
                /\ token' = r.value
                /\ pc' = "returned"
                /\ error' = error
    /\ UNCHANGED <<entry, path_exists, file_text, environ0, environ, env_values,
                   creds, requests, response, response_json, sandbox_response,
                   stdout, exit_code>>

\* the except clauses around fetch_access_token() of every entry point
MainExcept ==
    /\ pc = "raised"
    /\ stderr' = Append(stderr, ExceptMessage(error))
    /\ exit_code' = 1
    /\ pc' = "exit"
    /\ UNCHANGED <<entry, path_exists, file_text, environ0, environ, env_values,
                   creds, error, requests, response, response_json, token,
                   sandbox_response, stdout>>

\* print(token) of the token scripts
PrintToken ==
    /\ pc = "returned"
    /\ entry \in {"token_file", "token_dotenv"}
    /\ stdout' = Append(stdout, PrintValue(token))
    /\ exit_code' = 0
    /\ pc' = "exit"
    /\ UNCHANGED <<entry, path_exists, file_text, environ0, environ, env_values,
                   creds, error, requests, response, response_json, token,
                   sandbox_response, stderr>>

\* fetch_example: requests.get(url, headers=headers, params=params); an
\* exception of requests.get is caught nowhere
SandboxGet ==
    /\ pc = "returned"
    /\ entry = "editor"
    /\ \E outcome \in SandboxOutcomes :
         /\ requests' = Append(requests, SandboxRequest(sandbox_endpoints, token))
         /\ sandbox_response' = outcome
         /\ IF outcome.kind = "connection_error"
            THEN /\ error' = Exc("ConnectionError", "{exc}", <<>>, "None")
                 /\ pc' = "uncaught"
            ELSE /\ error' = error
                 /\ pc' = "sandbox_response"
    /\ UNCHANGED <<entry, path_exists, file_text, environ0, environ, env_values,
                   creds, response, response_json, token, stdout, stderr,
                   exit_code>>

\* print(response.status_code); return response.json(); then, in __main__,
\* print(json.dumps(response, indent=2)).  No status is checked.
SandboxFinish ==
    /\ pc = "sandbox_response"
    /\ LET status == PrintValue(PyInt(ToString(sandbox_response.status)))
           r == JsonLoads(sandbox_response.body.text)
       IN  IF r.ok
           THEN /\ stdout' = stdout \o <<status, JsonDump(r.value)>>
                /\ exit_code' = 0
                /\ pc' = "exit"
                /\ error' = error
           ELSE /\ stdout' = Append(stdout, status)
                /\ error' = Exc("JSONDecodeError", "{msg}", <<>>, "None")
                /\ pc' = "uncaught"
                /\ exit_code' = exit_code
    /\ UNCHANGED <<entry, path_exists, file_text, environ0, environ, env_values,
                   creds, requests, response, response_json, token,
                   sandbox_response, stderr>>

\* an exception that reaches the top of the script: traceback, exit status 1
Uncaught ==
    /\ pc = "uncaught"
    /\ stderr' = Append(stderr, Traceback(error))
    /\ exit_code' = 1
    /\ pc' = "exit"
    /\ UNCHANGED <<entry, path_exists, file_text, environ0, environ, env_values,
                   creds, error, requests, response, response_json, token,
                   sandbox_response, stdout>>

Next ==
    \/ LoadConfig
    \/ ResolveCredential
    \/ PostToken
    \/ ParseBody
    \/ ExtractAndReturn
    \/ MainExcept
    \/ PrintToken
    \/ SandboxGet
    \/ SandboxFinish
    \/ Uncaught

Spec == Init /\ [][Next]_vars

-----------------------------------------------------------------------------
(* load_env_file checked alone, on every text up to MaxTextLen tokens      *)

InitParse ==
    /\ entry = "load_env_file"
    /\ pc = "call"
    /\ path_exists \in BOOLEAN
    /\ file_text \in (IF path_exists THEN ParserTexts ELSE {<<>>})
    /\ environ0 = EmptyMapping
    /\ InitCommon

CallLoadEnvFile ==
    /\ pc = "call"
    /\ entry = "load_env_file"
    /\ env_values' = load_env_file(path_exists, file_text)
    /\ pc' = "called"
    /\ UNCHANGED <<entry, path_exists, file_text, environ0, environ, creds, error,
                   requests, response, response_json, token, sandbox_response,
                   stdout, stderr, exit_code>>

NextParse == CallLoadEnvFile

SpecParse == InitParse /\ [][NextParse]_vars

-----------------------------------------------------------------------------
(* Vocabulary of the claims                                                *)

\* the mapping the .env file parses to
FileMapping == load_env_file(path_exists, file_text)

\* the name has no entry in the file mapping and the environment does not define it
Absent(n) == n \notin DOMAIN FileMapping /\ n \notin DOMAIN environ0

\* the file holds a non-empty value for the name
FileNonEmpty(n) == n \in DOMAIN FileMapping /\ FileMapping[n] # <<>>

\* the file holds a non-empty value for the name, or the environment defines it
Resolvable(n) == FileNonEmpty(n) \/ n \in DOMAIN environ0

\* the error kinds of the specification's taxonomy
ErrorKind(e) ==
    CASE e.cls = "MissingEnvironmentVariableError" -> "MissingVariable"
      [] e.cls = "RuntimeError" /\ e.msg = "Failed to fetch access token: {exc}" ->
            "RequestFailed"
      [] e.cls = "RuntimeError" /\ e.msg # "Failed to fetch access token: {exc}" ->
            "InvalidResponse"
      [] OTHER -> "Other"

\* the request ended in a connection error or a status outside 2xx
RequestFailedAt(resp) ==
    \/ resp.kind = "connection_error"
    \/ resp.kind = "http" /\ resp.status \notin 200..299

CountMethod(m) == Cardinality({i \in DOMAIN requests : requests[i].method = m})

CountKind(stream, kind) == Cardinality({i \in DOMAIN stream : stream[i].kind = kind})

-----------------------------------------------------------------------------
(* C1: a required name with no entry in the file mapping and no definition *)
(* in the environment is never given a value; once the credentials have    *)
(* been gone through the run has failed with                               *)
(* MissingEnvironmentVariableError, and when every earlier name was        *)
(* resolvable the error is the one that names exactly this name.           *)
C1_MissingVariable ==
    \A i \in 1..Len(RequiredNames) :
        Absent(NameText(i)) =>
            /\ Len(creds) < i
            /\ pc \notin {"start", "resolve"} =>
                 /\ ErrorKind(error) = "MissingVariable"
                 /\ token = NotReturned
                 /\ (\A j \in 1..(i - 1) : Resolvable(NameText(j))) =>
                        /\ error = MissingEnvironmentVariableError(NameText(i))
                        /\ error.arg = <<RequiredNames[i]>>

\* C1's case: the first name resolved, the second absent from both sources,
\* and the run ended with the error naming the second
C1_Witness ==
    /\ pc = "exit"
    /\ Resolvable(NameText(1))
    /\ Absent(NameText(2))
    /\ error.cls = "MissingEnvironmentVariableError"
    /\ error.arg = <<"SP_API_SECRET">>
    /\ exit_code = 1

-----------------------------------------------------------------------------
(* C2: every resolved credential is the file's value when the file holds a *)
(* non-empty one (whatever the environment defines), and otherwise the     *)
(* environment's value; in both token-fetch variants.                      *)
C2_TwoTierLookup ==
    \A i \in 1..Len(creds) :
        IF FileNonEmpty(NameText(i))
        THEN creds[i] = FileMapping[NameText(i)]
        ELSE NameText(i) \in DOMAIN environ0 => creds[i] = environ0[NameText(i)]

-----------------------------------------------------------------------------
(* C3: load_env_file returns exactly the mapping of the well-formed lines. *)
(* Stated on the text itself: a line is a maximal newline-free stretch; it *)
(* is well-formed when, trimmed, it is not empty, does not start with "#"  *)
(* and holds an "="; its key and value are the trimmed parts before and    *)
(* after its first "="; the result's keys are the well-formed lines' keys, *)
(* each with the value of the last line that has the key; a file that does *)
(* not exist gives the empty mapping.                                      *)

LineSpans ==
    {sp \in (1..Len(file_text)) \X (1..Len(file_text)) :
        /\ sp[1] <= sp[2]
        /\ \A k \in sp[1]..sp[2] : file_text[k] # NL
        /\ sp[1] = 1 \/ file_text[sp[1] - 1] = NL
        /\ sp[2] = Len(file_text) \/ file_text[sp[2] + 1] = NL}

LineAt(sp) == SubSeq(file_text, sp[1], sp[2])

Trimmed(s) ==
    LET inked == {k \in 1..Len(s) : s[k] # " "}
    IN  IF inked = {} THEN <<>>
        ELSE SubSeq(s, CHOOSE a \in inked : \A k \in inked : a <= k,
                       CHOOSE b \in inked : \A k \in inked : k <= b)

WellFormed(s) ==
    /\ Trimmed(s) # <<>>
    /\ Trimmed(s)[1] # "#"
    /\ \E k \in 1..Len(s) : s[k] = "="

FirstEq(s) == CHOOSE k \in 1..Len(s) : s[k] = "=" /\ \A m \in 1..(k - 1) : s[m] # "="

KeyOf(s) == Trimmed(SubSeq(s, 1, FirstEq(s) - 1))

ValueOf(s) == Trimmed(SubSeq(s, FirstEq(s) + 1, Len(s)))

WellFormedSpans == {sp \in LineSpans : WellFormed(LineAt(sp))}

\* C3: once load_env_file has returned, its result is the mapping of the
\* well-formed lines, the last line of a key giving its value, and is empty
\* when the file does not exist
C3_LoadEnvFile ==
    pc = "called" =>
        IF ~path_exists THEN DOMAIN env_values = {}
        ELSE /\ DOMAIN env_values = {KeyOf(LineAt(sp)) : sp \in WellFormedSpans}
             /\ \A sp \in WellFormedSpans :
                    (\A later \in WellFormedSpans :
                        KeyOf(LineAt(later)) = KeyOf(LineAt(sp)) => later[1] <= sp[1])
                    => env_values[KeyOf(LineAt(sp))] = ValueOf(LineAt(sp))

\* C3's case: two well-formed lines with the same key and different values,
\* the later value holding an "=", and the later value in the result
C3_Witness ==
    /\ pc = "called"
    /\ path_exists
    /\ \E sp1 \in WellFormedSpans, sp2 \in WellFormedSpans :
          /\ sp1[1] < sp2[1]
          /\ KeyOf(LineAt(sp1)) = KeyOf(LineAt(sp2))
          /\ ValueOf(LineAt(sp1)) # ValueOf(LineAt(sp2))
          /\ \E k \in 1..Len(ValueOf(LineAt(sp2))) : ValueOf(LineAt(sp2))[k] = "="
          /\ env_values[KeyOf(LineAt(sp2))] = ValueOf(LineAt(sp2))

-----------------------------------------------------------------------------
(* C4: when the POST ended in a connection error or a status outside 2xx,  *)
(* fetch_access_token has failed with the RequestFailed kind of error,     *)
(* which wraps the underlying cause, and has returned no token.            *)
C4_RequestFailed ==
    RequestFailedAt(response) =>
        /\ ErrorKind(error) = "RequestFailed"
        /\ error.cause \in {"ConnectionError", "HTTPError"}
        /\ token = NotReturned

-----------------------------------------------------------------------------
(* C5: when the response parsed as JSON and the parsed value has no        *)
(* access_token field, fetch_access_token has failed with the              *)
(* InvalidResponse error that names the field, and has returned nothing.   *)
C5_MissingField ==
    ( /\ response_json # NotParsed
      /\ pc # "extract"
      /\ ~(response_json.t = "dict" /\ "access_token" \in DOMAIN response_json.f) )
    => /\ ErrorKind(error) = "InvalidResponse"
       /\ error.msg = "Response JSON is missing the 'access_token' field."
       /\ token = NotReturned

-----------------------------------------------------------------------------
(* C6: when the response has a success status and its body is not JSON,    *)
(* fetch_access_token has failed with the InvalidResponse error whose      *)
(* message holds the raw body text, has returned no token and has written  *)
(* no response to stderr.                                                  *)
C6_NonJsonBody ==
    ( /\ response.kind = "http"
      /\ response.status \in 200..299
      /\ ~response.body.utf8 \/ ~JsonLoads(response.body.text).ok
      /\ pc # "parse" )
    => /\ ErrorKind(error) = "InvalidResponse"
       /\ error.arg = <<response.body.text>>
       /\ token = NotReturned
       /\ CountKind(stderr, "json") = 0

-----------------------------------------------------------------------------
(* C7: once fetch_access_token has returned, the value is a string, it is  *)
(* the access_token field of the parsed response, and the parsed response  *)
(* has been written once to stderr and not to stdout at that point.        *)
C7_ReturnsString ==
    token # NotReturned =>
        /\ token.t = "str"
        /\ response_json.t = "dict"
        /\ "access_token" \in DOMAIN response_json.f
        /\ token = Scalar(response_json.f["access_token"].t,
                          response_json.f["access_token"].s)
        /\ CountKind(stderr, "json") = 1
        /\ stderr[1] = JsonDump(response_json)
        /\ \A i \in DOMAIN stdout : stdout[i] # JsonDump(response_json)

-----------------------------------------------------------------------------
(* C8: a run that ended in a failure (an exception, a failed token         *)
(* request, a failed sandbox request) wrote nothing to stdout, one message *)
(* line to stderr, and exits with 1; a run that exits with 0 succeeded and *)
(* wrote its result to stdout.                                             *)
RunFailed ==
    \/ error # NoError
    \/ RequestFailedAt(response)
    \/ RequestFailedAt(sandbox_response)

C8_FailureOutput ==
    pc = "exit" =>
        /\ RunFailed =>
              /\ stdout = <<>>
              /\ Len(stderr) = 1
              /\ stderr[1].kind = "message"
              /\ exit_code = 1
        /\ exit_code = 0 => ~RunFailed /\ stdout # <<>>

-----------------------------------------------------------------------------
(* C9: when the sandbox GET ended in a connection error or a status        *)
(* outside 2xx, the run has failed with the RequestFailed kind of error    *)
(* wrapping the cause, the GET was issued once, and no parsed body was     *)
(* printed as a result.                                                    *)
C9_SandboxRequestFailed ==
    ( RequestFailedAt(sandbox_response) /\ pc \in {"uncaught", "exit"} )
    => /\ ErrorKind(error) = "RequestFailed"
       /\ error.cause # "None"
       /\ CountMethod("GET") = 1
       /\ CountKind(stdout, "json") = 0

-----------------------------------------------------------------------------
(* C10: at most one POST and one GET are ever issued; the POST comes first,*)
(* only once all three credentials are resolved, and carries them; a run   *)
(* that failed on a missing credential issued no request; the GET comes    *)
(* only after fetch_access_token returned, in the editor, and carries the  *)
(* returned token; after a failed request nothing more is issued.          *)
C10_Order ==
    /\ CountMethod("POST") <= 1
    /\ CountMethod("GET") <= 1
    /\ Len(requests) <= 2
    /\ ErrorKind(error) = "MissingVariable" => requests = <<>>
    /\ Len(creds) < Len(RequiredNames) => requests = <<>>
    /\ pc \in {"start", "resolve", "post"} => requests = <<>>
    /\ requests # <<>> =>
          /\ requests[1].method = "POST"
          /\ requests[1].url = TOKEN_ENDPOINT
          /\ requests[1].form.client_id = creds[1]
          /\ requests[1].form.client_secret = creds[2]
          /\ requests[1].form.refresh_token = creds[3]
    /\ Len(requests) = 2 =>
          /\ requests[2].method = "GET"
          /\ entry = "editor"
          /\ token # NotReturned
          /\ requests[2].access_token = token
    /\ token = NotReturned => CountMethod("GET") = 0
    /\ (error # NoError /\ sandbox_response = NoResponse) => Len(requests) <= 1

\* C10's case: the editor ran to its end having issued the POST and then the
\* GET with the returned token
C10_Witness ==
    /\ pc = "exit"
    /\ entry = "editor"
    /\ Len(requests) = 2
    /\ requests[1].method = "POST"
    /\ requests[2].method = "GET"
    /\ requests[2].access_token = PyStr("abc123")
    /\ exit_code = 0

=============================================================================
